---- MODULE Spec2Model ----
(***************************************************************************)
(* Model of api.zachlagden.uk: the flat-file API key store                 *)
(* (helpers/keys.py) and the protected LastFM handlers                     *)
(* (endpoints/activity.py).                                                *)
(*                                                                         *)
(* A Python string is modelled as a pair <<prefix, body>>, so that         *)
(* "ZLAPI-" + token is Str("ZLAPI-", token); Python's None is <<>>.        *)
(* The file api_keys.json is a sequence of JSON tokens <<kind, payload>>:  *)
(* "[" , one "{}" token per record, "]"; "NUL" is a hole left by a write   *)
(* past the end of the file.                                               *)
(***************************************************************************)
EXTENDS Integers, Sequences, FiniteSets, TLC

\* ------------------------------------------------------------- bounds
\* Number of threads that may be inside generate_api_key at once.
NWriters == 2
\* Number of generate_api_key calls made in one behaviour.
MaxIssue == 2

Writers == 1..NWriters

\* ------------------------------------------------------------- values
None == <<>>
Str(prefix, body) == <<prefix, body>>
EmptyStr == Str("", "")
\* A thread that is in no call.
Idle == [state |-> "idle"]

\* The outcomes secrets.token_urlsafe(32) is drawn from.
Tokens == {"a", "b"}
\* The created_by arguments callers pass ("System" is the default).
CreatedBy == {"System", "test-suite"}
\* The values config.json may hold in ["api"]["master_key"].
MasterChoices == {Str("", "master"), Str("ZLAPI-", "a")}

VARIABLES
    CONFIG,        \* config.json as loaded at import (keys.py:9-10): [master_key]
    API_KEYS,      \* the in-memory list loaded from api_keys.json (keys.py:13-14)
    file,          \* content of api_keys.json on disk (sequence of tokens)
    now,           \* datetime.now(), a logical clock
    pc,            \* per writer thread: position in generate_api_key
    created_by,    \* per writer: the created_by argument
    new_api_key,   \* per writer: local new_api_key
    current_date,  \* per writer: local current_date
    f_buf,         \* per writer: text written to f but not yet flushed
    f_pos,         \* per writer: file offset of the open file object f
    dump_i,        \* per writer: json.dump's position in the list it iterates
    returned,      \* keys returned by generate_api_key so far, in order
    loaded,        \* the list api_keys.json held when the process imported it
    check,         \* a thread's call of check_api_key: Idle, or its result
    http,          \* a request thread: Idle, or the request and its response
    qr,            \* a request thread at a QR endpoint: Idle, or request and response
    limiter        \* the limiter's call of custom_key_func: Idle, or request and key

vars == <<CONFIG, API_KEYS, file, now, pc, created_by, new_api_key,
          current_date, f_buf, f_pos, dump_i, returned, loaded, check, http,
          qr, limiter>>

\* ------------------------------------------------------------- JSON file
Tok(kind, payload) == <<kind, payload>>
TokOpen == Tok("[", None)
TokClose == Tok("]", None)
TokNul == Tok("NUL", None)
TokObj(rec) == Tok("{}", rec)

RECURSIVE Objs(_)
Objs(recs) ==
    IF recs = <<>> THEN <<>>
    ELSE <<TokObj(Head(recs))>> \o Objs(Tail(recs))

\* json.dump(api_keys, f, indent=4) of a whole list, as text.
Dumped(recs) == <<TokOpen>> \o Objs(recs) \o <<TokClose>>

RECURSIVE Holes(_)
Holes(n) == IF n <= 0 THEN <<>> ELSE <<TokNul>> \o Holes(n - 1)

\* write(2) of text at offset pos of a file holding content: bytes before pos
\* are kept (a hole is left when pos is past the end), bytes after the written
\* range are kept too: nothing is truncated by a write.
WriteAt(content, pos, text) ==
    LET before == IF pos <= Len(content)
                  THEN SubSeq(content, 1, pos)
                  ELSE content \o Holes(pos - Len(content))
        after == SubSeq(content, pos + Len(text) + 1, Len(content))
    IN before \o text \o after

\* Whether json.load accepts the text: one list of objects, nothing else.
Parseable(content) ==
    /\ Len(content) >= 2
    /\ content[1][1] = "["
    /\ content[Len(content)][1] = "]"
    /\ \A i \in 2..(Len(content) - 1) : content[i][1] = "{}"

RECURSIVE Payloads(_)
Payloads(toks) ==
    IF toks = <<>> THEN <<>>
    ELSE <<Head(toks)[2]>> \o Payloads(Tail(toks))

\* json.load(f) of a parseable text: the list of records.
Loaded(content) == Payloads(SubSeq(content, 2, Len(content) - 1))

\* ------------------------------------------------------------- helpers/keys.py
NewKey(token) == Str("ZLAPI-", token)

NewRecord(key, created, by) ==
    [key |-> key, created |-> created, created_by |-> by]

\* The loop of check_api_key with the comparison inverted (!= for ==).
RECURSIVE KeyLoopInverted(_, _, _)
KeyLoopInverted(api_keys, api_key, i) ==
    IF i > Len(api_keys) THEN "False"
    ELSE IF api_keys[i].key # api_key THEN "True"
    ELSE KeyLoopInverted(api_keys, api_key, i + 1)

\* check_api_key, lines 41-44: the loop over the loaded list, from index i.
RECURSIVE KeyLoop(_, _, _)
KeyLoop(api_keys, api_key, i) ==
    IF i > Len(api_keys) THEN "False"
    ELSE IF api_keys[i].key = api_key THEN "True"
    ELSE KeyLoop(api_keys, api_key, i + 1)

\* check_api_key on a file holding content: "True", "False", or the exception
\* json.load raises on text that is not JSON.
check_api_key(content, api_key) ==
    IF ~Parseable(content) THEN "JSONDecodeError"
    ELSE KeyLoop(Loaded(content), api_key, 1)

check_master_key(api_key) == api_key = CONFIG.master_key

\* The stores the process may find on disk at import: it loads api_keys.json
\* with json.load and later appends to the result, so the file holds a list.
InitialStores == {<<>>, <<NewRecord(NewKey("a"), 0, "System")>>}

Init ==
    /\ CONFIG \in {[master_key |-> m] : m \in MasterChoices}
    /\ API_KEYS \in InitialStores
    /\ loaded = API_KEYS
    /\ file = Dumped(API_KEYS)
    /\ check = Idle
    /\ http = Idle
    /\ qr = Idle
    /\ limiter = Idle
    /\ now = 1
    /\ pc = [w \in Writers |-> "idle"]
    /\ created_by = [w \in Writers |-> None]
    /\ new_api_key = [w \in Writers |-> None]
    /\ current_date = [w \in Writers |-> 0]
    /\ f_buf = [w \in Writers |-> <<>>]
    /\ f_pos = [w \in Writers |-> 0]
    /\ dump_i = [w \in Writers |-> 0]
    /\ returned = <<>>

\* generate_api_key, lines 16-21: the call, the token and the timestamp.
GenCall(w) ==
    /\ pc[w] = "idle"
    /\ now <= MaxIssue
    /\ \E by \in CreatedBy, t \in Tokens :
        /\ created_by' = [created_by EXCEPT ![w] = by]
        /\ new_api_key' = [new_api_key EXCEPT ![w] = NewKey(t)]
    /\ current_date' = [current_date EXCEPT ![w] = now]
    /\ now' = now + 1
    /\ pc' = [pc EXCEPT ![w] = "append"]
    /\ UNCHANGED <<check, http, qr, limiter, loaded, CONFIG, API_KEYS, file, f_buf, f_pos, dump_i, returned>>

\* generate_api_key building the new list without keeping it
\* (api_keys + [record] for api_keys.append(record)).
GenAppendDropped(w) ==
    /\ pc[w] = "append"
    /\ pc' = [pc EXCEPT ![w] = "open"]
    /\ UNCHANGED <<check, http, qr, limiter, loaded, CONFIG, API_KEYS, file, now, created_by,
                   new_api_key, current_date, f_buf, f_pos, dump_i, returned>>

\* lines 23-29: api_keys is API_KEYS itself, the append is to the shared list.
GenAppend(w) ==
    /\ pc[w] = "append"
    /\ API_KEYS' = Append(API_KEYS,
                          NewRecord(new_api_key[w], current_date[w], created_by[w]))
    /\ pc' = [pc EXCEPT ![w] = "open"]
    /\ UNCHANGED <<check, http, qr, limiter, loaded, CONFIG, file, now, created_by, new_api_key, current_date,
                   f_buf, f_pos, dump_i, returned>>

\* line 31: open(..., "w") truncates the file; f starts at offset 0.
GenOpen(w) ==
    /\ pc[w] = "open"
    /\ file' = <<>>
    /\ f_buf' = [f_buf EXCEPT ![w] = <<>>]
    /\ f_pos' = [f_pos EXCEPT ![w] = 0]
    /\ dump_i' = [dump_i EXCEPT ![w] = 0]
    /\ pc' = [pc EXCEPT ![w] = "dump"]
    /\ UNCHANGED <<check, http, qr, limiter, loaded, CONFIG, API_KEYS, now, created_by, new_api_key,
                   current_date, returned>>

\* line 32: json.dump with indent=4 iterates the list and calls f.write once
\* per chunk; the list is read as the iteration reaches each index. The text
\* of a store of the modelled size is far below f's buffer size (8192 bytes),
\* so nothing reaches the file before f is closed.
GenDump(w) ==
    /\ pc[w] = "dump"
    /\ IF dump_i[w] = 0
       THEN /\ f_buf' = [f_buf EXCEPT ![w] = Append(@, TokOpen)]
            /\ dump_i' = [dump_i EXCEPT ![w] = 1]
            /\ pc' = pc
       ELSE IF dump_i[w] <= Len(API_KEYS)
       THEN /\ f_buf' = [f_buf EXCEPT ![w] = Append(@, TokObj(API_KEYS[dump_i[w]]))]
            /\ dump_i' = [dump_i EXCEPT ![w] = @ + 1]
            /\ pc' = pc
       ELSE /\ f_buf' = [f_buf EXCEPT ![w] = Append(@, TokClose)]
            /\ dump_i' = dump_i
            /\ pc' = [pc EXCEPT ![w] = "close"]
    /\ UNCHANGED <<check, http, qr, limiter, loaded, CONFIG, API_KEYS, file, now, created_by, new_api_key,
                   current_date, f_pos, returned>>

\* lines 31-32: leaving the with block closes f, which writes what is buffered;
\* f and the dump's iterator are gone afterwards.
GenClose(w) ==
    /\ pc[w] = "close"
    /\ file' = WriteAt(file, f_pos[w], f_buf[w])
    /\ f_pos' = [f_pos EXCEPT ![w] = 0]
    /\ f_buf' = [f_buf EXCEPT ![w] = <<>>]
    /\ dump_i' = [dump_i EXCEPT ![w] = 0]
    /\ pc' = [pc EXCEPT ![w] = "return"]
    /\ UNCHANGED <<check, http, qr, limiter, loaded, CONFIG, API_KEYS, now, created_by, new_api_key,
                   current_date, returned>>

\* line 34: return new_api_key; the other locals are gone.
GenReturn(w) ==
    /\ pc[w] = "return"
    /\ returned' = Append(returned, new_api_key[w])
    /\ created_by' = [created_by EXCEPT ![w] = None]
    /\ current_date' = [current_date EXCEPT ![w] = 0]
    /\ pc' = [pc EXCEPT ![w] = "returned"]
    /\ UNCHANGED <<check, http, qr, limiter, loaded, CONFIG, API_KEYS, file, now, new_api_key, f_buf, f_pos, dump_i>>

\* The caller takes the key; the thread is free for another call.
GenDone(w) ==
    /\ pc[w] = "returned"
    /\ new_api_key' = [new_api_key EXCEPT ![w] = None]
    /\ pc' = [pc EXCEPT ![w] = "idle"]
    /\ UNCHANGED <<check, http, qr, limiter, loaded, CONFIG, API_KEYS, file, now, created_by, current_date,
                   f_buf, f_pos, dump_i, returned>>

generate_api_key(w) ==
    \/ GenCall(w)
    \/ GenAppend(w)
    \/ GenOpen(w)
    \/ GenDump(w)
    \/ GenClose(w)
    \/ GenReturn(w)
    \/ GenDone(w)


\* ------------------------------------------------------------- a bare call
\* The keys a caller may present: absent, empty, of the issued form, other.
PresentedKeys ==
    {EmptyStr} \cup {NewKey(t) : t \in Tokens} \cup MasterChoices

\* A thread calls check_api_key(api_key): the file is read in one read.
CheckCall ==
    /\ check = Idle
    /\ \E k \in PresentedKeys :
        check' = [state |-> "returned", api_key |-> k, seen |-> file,
                  result |-> check_api_key(file, k)]
    /\ UNCHANGED <<http, qr, limiter, loaded, CONFIG, API_KEYS, file, now, pc, created_by,
                   new_api_key, current_date, f_buf, f_pos, dump_i, returned>>

\* The caller takes the result (or the exception).
CheckDone ==
    /\ check # Idle
    /\ check' = Idle
    /\ UNCHANGED <<http, qr, limiter, loaded, CONFIG, API_KEYS, file, now, pc, created_by,
                   new_api_key, current_date, f_buf, f_pos, dump_i, returned>>

\* ------------------------------------------------------------- endpoints/activity.py
\* Tracks the upstream list is drawn from, and its longest length.
MaxTracks == 2

\* An optional integer argument: None, or Some(n).
Some(n) == <<n>>

Absent == <<"absent">>
Null == <<"null">>

\* A LastFM track: whether it carries @attr.nowplaying, and whether it has the
\* artist, name, album, url and image fields the handlers read.
Track(id, nowplaying, wellformed) ==
    [id |-> id, nowplaying |-> nowplaying, wellformed |-> wellformed]

TrackSet ==
    {Track(1, TRUE, TRUE), Track(2, FALSE, TRUE), Track(3, TRUE, FALSE)}

TrackLists ==
    UNION {[1..n -> TrackSet] : n \in 0..MaxTracks}

\* What requests.get(request_url) does: raise, or return a response.
UpConnectionError ==
    [kind |-> "ConnectionError"]
UpResponse(status_code, is_json, has_recenttracks, has_track, track) ==
    [kind |-> "response", status_code |-> status_code, is_json |-> is_json,
     has_recenttracks |-> has_recenttracks, has_track |-> has_track,
     track |-> track]

Upstreams ==
    {UpConnectionError}
    \cup {UpResponse(c, FALSE, FALSE, FALSE, <<>>) : c \in {200, 404, 503}}
    \cup {UpResponse(200, TRUE, FALSE, FALSE, <<>>),
          UpResponse(200, TRUE, TRUE, FALSE, <<>>)}
    \cup {UpResponse(200, TRUE, TRUE, TRUE, l) : l \in TrackLists}

\* A handler's return value as Flask-RESTX sends it: the dict as the JSON
\* body, with the given code, or 200 when the handler returns the dict alone.
Envelope(ok, status, message, data, error, code) ==
    [kind |-> "envelope", ok |-> ok, status |-> status, message |-> message,
     data |-> data, error |-> error, http |-> code]

\* An exception that leaves the handler.
Raised(exc) == [kind |-> "exception", exc |-> exc]

\* reqparse's answer to a missing required argument: abort(400).
Abort400 ==
    [kind |-> "abort", http |-> 400,
     message |-> "Input payload validation failed"]

InvalidKey == Envelope(FALSE, 401, "Invalid API key", Absent, Absent, 401)

\* The dict both handlers build from a track; reading a missing field raises.
TrackData(track) == [artist |-> track.id, name |-> track.id,
                     album |-> track.id, url |-> track.id, image |-> track.id]

\* tracks[:limit]
Slice(tracks, limit) ==
    IF limit >= 0
    THEN SubSeq(tracks, 1, IF limit < Len(tracks) THEN limit ELSE Len(tracks))
    ELSE SubSeq(tracks, 1, Len(tracks) + limit)

RECURSIVE TrackLoop(_)
TrackLoop(tracks) ==
    IF tracks = <<>> THEN <<>>
    ELSE <<TrackData(Head(tracks))>> \o TrackLoop(Tail(tracks))

\* LastFMNowPlaying.get from line 84 on: the upstream call and its outcomes.
NowPlaying(up) ==
    IF up.kind = "ConnectionError" THEN Raised("ConnectionError")
    ELSE IF up.status_code # 200
    THEN Envelope(FALSE, up.status_code,
                  "Failed to get now playing data from LastFM while sending request. Response from the API is in the data key.",
                  <<"text">>, Absent, 200)
    ELSE IF ~up.is_json THEN Raised("JSONDecodeError")
    ELSE IF ~up.has_recenttracks \/ ~up.has_track
    THEN Envelope(FALSE, 500,
                  "Failed to get now playing data from LastFM. Response from the API is in the data key.",
                  <<"json">>, Absent, 500)
    ELSE IF up.track = <<>> THEN Raised("IndexError")
    ELSE IF up.track[1].nowplaying
    THEN IF ~up.track[1].wellformed THEN Raised("KeyError")
         ELSE Envelope(TRUE, 200, "Successfully fetched now playing data.",
                       <<"track", TrackData(up.track[1])>>, Absent, 200)
    ELSE Envelope(TRUE, 200, "No track is currently playing", Null, Absent, 404)

\* LastFMRecentTracks.get from line 185 on: the upstream call and its outcomes.
RecentTracks(limit, up) ==
    IF up.kind = "ConnectionError" THEN Raised("ConnectionError")
    ELSE IF up.status_code # 200
    THEN Envelope(FALSE, up.status_code,
                  "Failed to get recent tracks data from LastFM while sending request. Response from the API is in the data key.",
                  <<"text">>, Absent, 200)
    ELSE IF ~up.is_json THEN Raised("JSONDecodeError")
    ELSE IF ~up.has_recenttracks \/ ~up.has_track
    THEN Envelope(FALSE, 500,
                  "Failed to get recent tracks data from LastFM. Response from the API is in the data key.",
                  <<"json">>, Absent, 500)
    ELSE LET tracks == IF limit # None THEN Slice(up.track, limit[1])
                       ELSE up.track
         IN IF \E i \in DOMAIN tracks : ~tracks[i].wellformed
            THEN Raised("KeyError")
            ELSE Envelope(TRUE, 200, "Successfully fetched recent tracks data.",
                          <<"list", TrackLoop(tracks)>>, Absent, 200)

\* The first lines of both handlers: parse_args (api_key is required=True, so
\* a request without it is aborted), then check_api_key on the file as it is.
Authenticate(api_key, content) ==
    IF api_key = None THEN "Abort"
    ELSE check_api_key(content, api_key)

\* LastFMNowPlaying.get, whole.
LastFMNowPlaying_get(api_key, content, up) ==
    LET auth == Authenticate(api_key, content)
    IN IF auth = "Abort" THEN Abort400
       ELSE IF auth = "JSONDecodeError" THEN Raised("JSONDecodeError")
       ELSE IF auth # "True" THEN InvalidKey
       ELSE NowPlaying(up)

\* LastFMRecentTracks.get, whole.
LastFMRecentTracks_get(api_key, limit, content, up) ==
    LET auth == Authenticate(api_key, content)
    IN IF auth = "Abort" THEN Abort400
       ELSE IF auth = "JSONDecodeError" THEN Raised("JSONDecodeError")
       ELSE IF auth # "True" THEN InvalidKey
       ELSE RecentTracks(limit, up)

Endpoints == {"now_playing", "recent_tracks"}
\* The limit arguments a request to recent_tracks may carry.
Limits == {None} \cup {Some(n) : n \in -1..MaxTracks}
NotCalled == [kind |-> "NotCalled"]

Handled(endpoint, api_key, limit, up, response) ==
    [state |-> "responded", endpoint |-> endpoint, api_key |-> api_key,
     limit |-> limit, seen |-> file, auth |-> Authenticate(api_key, file),
     upstream |-> up, response |-> response]

\* A request to now_playing: the handler runs to its response. The upstream
\* is called only by a request that passed the key check.
GetNowPlaying ==
    /\ http = Idle
    /\ \E k \in PresentedKeys \cup {None} :
        IF Authenticate(k, file) = "True"
        THEN \E up \in Upstreams :
                http' = Handled("now_playing", k, None, up,
                                LastFMNowPlaying_get(k, file, up))
        ELSE http' = Handled("now_playing", k, None, NotCalled,
                             LastFMNowPlaying_get(k, file, NotCalled))
    /\ UNCHANGED <<check, qr, limiter, loaded, CONFIG, API_KEYS, file, now, pc, created_by,
                   new_api_key, current_date, f_buf, f_pos, dump_i, returned>>

\* A request to recent_tracks, likewise.
GetRecentTracks ==
    /\ http = Idle
    /\ \E k \in PresentedKeys \cup {None}, lim \in Limits :
        IF Authenticate(k, file) = "True"
        THEN \E up \in Upstreams :
                http' = Handled("recent_tracks", k, lim, up,
                                LastFMRecentTracks_get(k, lim, file, up))
        ELSE http' = Handled("recent_tracks", k, lim, NotCalled,
                             LastFMRecentTracks_get(k, lim, file, NotCalled))
    /\ UNCHANGED <<check, qr, limiter, loaded, CONFIG, API_KEYS, file, now, pc, created_by,
                   new_api_key, current_date, f_buf, f_pos, dump_i, returned>>

\* The response is sent; the thread takes the next request.
HttpDone ==
    /\ http # Idle
    /\ http' = Idle
    /\ UNCHANGED <<check, qr, limiter, loaded, CONFIG, API_KEYS, file, now, pc, created_by,
                   new_api_key, current_date, f_buf, f_pos, dump_i, returned>>

\* ------------------------------------------------------------- QR endpoints
\* endpoints/tools.py and endpoints/images.py. A query parameter is None when
\* the request does not carry it, Some(n) for an integer, Text(s) for a
\* string; the data parameter is modelled by its length, Some(len).
Text(s) == <<s>>
Invalid == <<"invalid", "invalid">>

MaxDataLen == 1000
ToolsSizeMax == 50
ImagesSizeMax == 100
VersionMax == 40
BorderMax == 10

\* reqparse on one argument: a missing required argument and a value outside
\* choices are validation errors; a missing optional one takes the default
\* (None when none is declared), which is not checked against choices.
ArgRequired(raw) == IF raw = None THEN Invalid ELSE raw

ArgInt(raw, default, lo, hi) ==
    IF raw = None THEN default
    ELSE IF raw[1] \in lo..hi THEN raw
    ELSE Invalid

ArgChoice(raw, default, choices) ==
    IF raw = None THEN default
    ELSE IF raw[1] \in choices THEN raw
    ELSE Invalid

\* str.lower and str.upper on the file types a request may name.
LowerOf ==
    ("PNG" :> "png") @@ ("JPG" :> "jpg") @@ ("JPEG" :> "jpeg")
    @@ ("GIF" :> "gif") @@ ("BMP" :> "bmp") @@ ("WEBP" :> "webp")
    @@ ("SVG" :> "svg") @@ ("BASE64" :> "base64") @@ ("TIFF" :> "tiff")

Lower(s) == IF s \in DOMAIN LowerOf THEN LowerOf[s] ELSE s

Upper(s) ==
    IF \E u \in DOMAIN LowerOf : LowerOf[u] = s
    THEN CHOOSE u \in DOMAIN LowerOf : LowerOf[u] = s
    ELSE s

FileTypeChoices ==
    {"PNG", "JPG", "JPEG", "GIF", "BMP", "WEBP", "SVG", "BASE64"}

\* An argument with case_sensitive=False: the value is lowered and compared
\* with the lowered choices; the lowered value is what the handler gets.
ArgChoiceNoCase(raw, default, choices) ==
    IF raw = None THEN default
    ELSE IF Lower(raw[1]) \in {Lower(c) : c \in choices}
    THEN Text(Lower(raw[1]))
    ELSE Invalid

ErrorCorrectionChoices == {"L", "M", "Q", "H"}

\* tools_qr_parser.parse_args() of endpoints/tools.py.
ToolsParseArgs(raw) ==
    [data |-> ArgRequired(raw.data),
     size |-> ArgInt(raw.size, Some(8), 1, ToolsSizeMax),
     error_correction |->
         ArgChoice(raw.error_correction, Text("L"), ErrorCorrectionChoices)]

\* tools_qr_parser.parse_args() of endpoints/images.py.
ImagesParseArgs(raw) ==
    [data |-> ArgRequired(raw.data),
     filetype |-> ArgChoiceNoCase(raw.filetype, Text("PNG"), FileTypeChoices),
     size |-> ArgInt(raw.size, Some(8), 1, ImagesSizeMax),
     error_correction |->
         ArgChoice(raw.error_correction, Text("L"), ErrorCorrectionChoices),
     version |-> ArgInt(raw.version, None, 1, VersionMax),
     border |-> ArgInt(raw.border, Some(4), 1, BorderMax)]

\* parse_args aborts the request on the first argument in error.
ArgsOk(args) == \A a \in DOMAIN args : args[a] # Invalid

DataTooLong ==
    Envelope(FALSE, 400, "The data cannot be longer than 1000 characters",
             Absent, Absent, 400)

QRFailed ==
    Envelope(FALSE, 500, "Failed to generate QR code", Absent, <<"str">>, 500)

\* send_file(img_io, mimetype=...)
SentFile(mimetype) == [kind |-> "file", mimetype |-> mimetype, http |-> 200]

QRBase64 ==
    [kind |-> "envelope", ok |-> TRUE, status |-> 200,
     message |-> "Successfully generated QR code", data |-> Absent,
     error |-> Absent, base64 |-> <<"str">>, http |-> 200]

\* Whether the handler reaches the code that builds the QR code.
ToolsGenerates(raw) ==
    /\ ArgsOk(ToolsParseArgs(raw))
    /\ ToolsParseArgs(raw).data[1] <= MaxDataLen

ImagesGenerates(raw) ==
    /\ ArgsOk(ImagesParseArgs(raw))
    /\ ImagesParseArgs(raw).data[1] <= MaxDataLen

\* QRCodeGenerator.get of endpoints/tools.py; gen is what the qrcode library
\* does when it is reached: "ok", or "raises".
ToolsQR_get(raw, gen) ==
    LET args == ToolsParseArgs(raw)
    IN IF ~ArgsOk(args) THEN Abort400
       ELSE IF args.data[1] > MaxDataLen THEN DataTooLong
       ELSE IF gen = "raises" THEN QRFailed
       ELSE SentFile("image/png")

\* QRCodeGenerator.get of endpoints/images.py; gen is what generate_qr_code
\* does when it is reached.
ImagesQR_get(raw, gen) ==
    LET args == ImagesParseArgs(raw)
    IN IF ~ArgsOk(args) THEN Abort400
       ELSE IF args.data[1] > MaxDataLen THEN DataTooLong
       ELSE IF gen = "raises" THEN QRFailed
       ELSE IF Upper(args.filetype[1]) = "BASE64" THEN QRBase64
       ELSE SentFile(<<"image/", Lower(args.filetype[1])>>)

\* The parameters a request may carry.
DataParams == {None, Some(1), Some(MaxDataLen), Some(MaxDataLen + 1)}
IntParams(hi) == {None, Some(0), Some(1), Some(hi), Some(hi + 1)}
ErrorCorrectionParams == {None, Text("L"), Text("H"), Text("l"), Text("X")}
FileTypeParams == {None, Text("PNG"), Text("svg"), Text("base64"), Text("TIFF")}

ToolsRequests ==
    [data : DataParams, size : IntParams(ToolsSizeMax),
     error_correction : ErrorCorrectionParams]

ImagesRequests ==
    [data : DataParams, filetype : FileTypeParams,
     size : IntParams(ImagesSizeMax),
     error_correction : ErrorCorrectionParams,
     version : IntParams(VersionMax), border : IntParams(BorderMax)]

QRHandled(endpoint, api_key, raw, gen, response) ==
    [state |-> "responded", endpoint |-> endpoint, api_key |-> api_key,
     seen |-> file, raw |-> raw, generate |-> gen, response |-> response]

\* A request to /tools/qr. The parser declares no api_key argument, so one
\* in the query string is ignored.
GetToolsQR ==
    /\ qr = Idle
    /\ \E k \in PresentedKeys \cup {None}, raw \in ToolsRequests :
        IF ToolsGenerates(raw)
        THEN \E gen \in {"ok", "raises"} :
                qr' = QRHandled("tools/qr", k, raw, gen, ToolsQR_get(raw, gen))
        ELSE qr' = QRHandled("tools/qr", k, raw, "NotCalled",
                             ToolsQR_get(raw, "NotCalled"))
    /\ UNCHANGED <<check, http, limiter, loaded, CONFIG, API_KEYS, file, now,
                   pc, created_by, new_api_key, current_date, f_buf, f_pos,
                   dump_i, returned>>

\* A request to /images/qr.
GetImagesQR ==
    /\ qr = Idle
    /\ \E raw \in ImagesRequests :
        IF ImagesGenerates(raw)
        THEN \E gen \in {"ok", "raises"} :
                qr' = QRHandled("images/qr", None, raw, gen,
                                ImagesQR_get(raw, gen))
        ELSE qr' = QRHandled("images/qr", None, raw, "NotCalled",
                             ImagesQR_get(raw, "NotCalled"))
    /\ UNCHANGED <<check, http, limiter, loaded, CONFIG, API_KEYS, file, now,
                   pc, created_by, new_api_key, current_date, f_buf, f_pos,
                   dump_i, returned>>

QRDone ==
    /\ qr # Idle
    /\ qr' = Idle
    /\ UNCHANGED <<check, http, limiter, loaded, CONFIG, API_KEYS, file, now,
                   pc, created_by, new_api_key, current_date, f_buf, f_pos,
                   dump_i, returned>>

\* ------------------------------------------------------------- app.py
\* flask_limiter.util.get_remote_address: request.remote_addr or "127.0.0.1".
get_remote_address(remote_addr) ==
    IF remote_addr # None /\ remote_addr # Text("") THEN remote_addr
    ELSE Text("127.0.0.1")

\* Python's truth value of an optional string.
Truthy(x) == x # None /\ x # EmptyStr /\ x # Text("")

\* custom_key_func: "A or B if C else D" is "(A or B) if C else D".
custom_key_func(api_key, remote_addr, cf_connecting_ip) ==
    IF Truthy(get_remote_address(remote_addr))
    THEN IF Truthy(api_key) THEN api_key
         ELSE get_remote_address(remote_addr)
    ELSE IF cf_connecting_ip # <<>> THEN cf_connecting_ip[1]
    ELSE None

\* What a request may carry: the api_key parameter, the peer address the
\* server reports, the Cf-Connecting-Ip header values.
KeyParams == {None, EmptyStr, NewKey("a")}
RemoteAddrs == {None, Text("203.0.113.7")}
CfHeaders ==
    {<<>>, <<Text("198.51.100.1")>>,
     <<Text("198.51.100.1"), Text("198.51.100.2")>>}

\* The limiter asks custom_key_func for the identity of a request.
LimiterKey ==
    /\ limiter = Idle
    /\ \E k \in KeyParams, addr \in RemoteAddrs, cf \in CfHeaders :
        limiter' = [state |-> "keyed", api_key |-> k, remote_addr |-> addr,
                    cf_connecting_ip |-> cf,
                    key |-> custom_key_func(k, addr, cf)]
    /\ UNCHANGED <<check, http, qr, loaded, CONFIG, API_KEYS, file, now,
                   pc, created_by, new_api_key, current_date, f_buf, f_pos,
                   dump_i, returned>>

LimiterDone ==
    /\ limiter # Idle
    /\ limiter' = Idle
    /\ UNCHANGED <<check, http, qr, loaded, CONFIG, API_KEYS, file, now,
                   pc, created_by, new_api_key, current_date, f_buf, f_pos,
                   dump_i, returned>>

\* ------------------------------------------------------------- specifications
\* Calls one after another: a call starts when no other call is under way.
Quiet == \A w \in Writers : pc[w] = "idle"

Next ==
    \/ \E w \in Writers :
        /\ \A v \in Writers \ {w} : pc[v] = "idle"
        /\ check = Idle
        /\ http = Idle
        /\ generate_api_key(w)
    \/ Quiet /\ http = Idle /\ CheckCall
    \/ Quiet /\ http = Idle /\ CheckDone
    \/ Quiet /\ check = Idle /\ GetNowPlaying
    \/ Quiet /\ check = Idle /\ GetRecentTracks

Spec == Init /\ [][Next]_vars

\* The threads of the server interleaved: calls of generate_api_key and of
\* check_api_key overlap, each step one file operation or one bytecode run.
\* A handler touches the shared file only through its call of check_api_key,
\* so its overlap with a writer is the overlap of CheckCall with it.
ConcNext ==
    \/ \E w \in Writers : generate_api_key(w)
    \/ CheckCall
    \/ CheckDone

ConcSpec == Init /\ [][ConcNext]_vars

\* The requests that touch nothing shared: the QR endpoints, which read no
\* key store, and the limiter's key function, one request at a time.
RequestNext ==
    \/ limiter = Idle /\ GetToolsQR
    \/ limiter = Idle /\ GetImagesQR
    \/ limiter = Idle /\ QRDone
    \/ qr = Idle /\ LimiterKey
    \/ qr = Idle /\ LimiterDone

RequestSpec == Init /\ [][RequestNext]_vars

\* ------------------------------------------------------------- properties
\* The keys of the records the persisted store holds.
StoreKeys(content) ==
    IF Parseable(content)
    THEN {Loaded(content)[i].key : i \in DOMAIN Loaded(content)}
    ELSE {}

\* C1: a presented key that is the key of no record of the store and is not
\* the master credential is Unauthorized: check_api_key answers False and a
\* protected handler answers the 401 envelope without calling the upstream,
\* in every store state a sequence of issue operations produces.
C1_UnknownKeyUnauthorized ==
    /\ (/\ check.state = "returned"
        /\ check.api_key \notin StoreKeys(check.seen)
        /\ check.api_key # CONFIG.master_key)
       => check.result = "False"
    /\ (/\ http.state = "responded"
        /\ http.api_key # None
        /\ http.api_key \notin StoreKeys(http.seen)
        /\ http.api_key # CONFIG.master_key)
       => (http.response = InvalidKey /\ http.upstream = NotCalled)

C1_Witness ==
    /\ Len(returned) >= 1
    /\ http.state = "responded"
    /\ http.api_key \in {NewKey(t) : t \in Tokens}
    /\ http.api_key \notin StoreKeys(http.seen)
    /\ http.api_key # CONFIG.master_key
    /\ StoreKeys(http.seen) # {}
    /\ http.response = InvalidKey

\* C2: a request to a protected endpoint whose key is the master credential
\* is Authorized (the handler goes on to the upstream call), whatever the
\* store holds.
C2_MasterAuthorized ==
    (http.state = "responded" /\ http.api_key = CONFIG.master_key)
        => (http.response # InvalidKey /\ http.upstream # NotCalled)

\* C3: no key generate_api_key has returned passes check_master_key.
C3_IssuedKeyNeverMaster ==
    \A i \in DOMAIN returned : ~check_master_key(returned[i])

\* C4: when generate_api_key has returned k, check_api_key(k) on the file as
\* it then is answers True, and so does a call of check_api_key made after.
C4_IssuedKeyExists ==
    /\ \A w \in Writers :
        pc[w] = "returned" => check_api_key(file, new_api_key[w]) = "True"
    /\ (/\ check.state = "returned"
        /\ \E i \in DOMAIN returned : returned[i] = check.api_key)
       => check.result = "True"

C4_Witness ==
    /\ \E w \in Writers :
        /\ pc[w] = "returned"
        /\ new_api_key[w] \notin StoreKeys(Dumped(loaded))
        /\ Len(returned) = 2
    /\ loaded # <<>>

\* C5: no two records of the persisted store have the same key, so no issue
\* has returned a key the store already held.
C5_StoreKeysUnique ==
    Parseable(file) =>
        \A i, j \in DOMAIN Loaded(file) :
            i # j => Loaded(file)[i].key # Loaded(file)[j].key

\* C6: when the concurrent calls of generate_api_key are over, the persisted
\* store holds the records it held at the start and one more per returned
\* key. Stated for the runs where the keys drawn are new and pairwise
\* distinct (a repeated key is C5's matter).
C6_NoLostUpdate ==
    (/\ Quiet
     /\ \A i \in DOMAIN returned : returned[i] \notin StoreKeys(Dumped(loaded))
     /\ \A i, j \in DOMAIN returned : i # j => returned[i] # returned[j])
    => /\ Parseable(file)
       /\ Len(Loaded(file)) = Len(loaded) + Len(returned)
       /\ \A i \in DOMAIN returned : returned[i] \in StoreKeys(file)

\* C7: what a call of check_api_key reads from the file is a complete
\* snapshot of the store: the dump of the list as it was at some moment.
C7_ReaderSeesSnapshot ==
    check.state = "returned" =>
        \E n \in 0..Len(API_KEYS) : check.seen = Dumped(SubSeq(API_KEYS, 1, n))

\* C8: when the file is not parseable, check_api_key answers False.
C8_FailsClosed ==
    (check.state = "returned" /\ ~Parseable(check.seen))
        => check.result = "False"

\* C9: a request to a protected endpoint without api_key, or with an empty
\* one, is answered with the 401 "Invalid API key" envelope and status 401.
C9_MissingKeyIs401 ==
    (/\ http.state = "responded"
     /\ http.api_key \in {None, EmptyStr})
    => http.response = InvalidKey

\* C10: whatever the upstream call of an authenticated request does, the
\* handler returns an envelope; no exception leaves it.
C10_NoExceptionEscapes ==
    (http.state = "responded" /\ http.upstream # NotCalled)
        => http.response.kind = "envelope"

\* C11: in every envelope a handler returns, the status field of the body is
\* the HTTP status code of the response that carries it.
C11_BodyStatusIsHttpStatus ==
    (http.state = "responded" /\ http.response.kind = "envelope")
        => http.response.status = http.response.http

Min(a, b) == IF a < b THEN a ELSE b

\* C13: a successful recent_tracks response holds at most limit entries, the
\* first min(limit, L) upstream tracks in upstream order, and all L tracks
\* when limit is absent.
C13_LimitTruncates ==
    (/\ http.state = "responded"
     /\ http.endpoint = "recent_tracks"
     /\ http.response.kind = "envelope"
     /\ http.response.ok)
    => IF http.limit = None
       THEN http.response.data = <<"list", TrackLoop(http.upstream.track)>>
       ELSE /\ Len(http.response.data[2]) <= http.limit[1]
            /\ http.response.data =
                   <<"list", TrackLoop(SubSeq(http.upstream.track, 1,
                        Min(http.limit[1], Len(http.upstream.track))))>>

\* The same for the limits that are not negative.
C13_NonNegativeLimitTruncates ==
    (http.state = "responded" /\ http.limit # None /\ http.limit[1] < 0)
        \/ C13_LimitTruncates

\* A QR request with a parameter outside the domain its parser declares, or
\* with data longer than 1000 characters.
OutsideDomain(endpoint, raw) ==
    \/ raw.data # None /\ raw.data[1] > MaxDataLen
    \/ /\ raw.error_correction # None
       /\ raw.error_correction[1] \notin ErrorCorrectionChoices
    \/ /\ raw.size # None
       /\ raw.size[1] \notin
              1..(IF endpoint = "tools/qr" THEN ToolsSizeMax
                  ELSE ImagesSizeMax)
    \/ /\ endpoint = "images/qr"
       /\ \/ raw.version # None /\ raw.version[1] \notin 1..VersionMax
          \/ raw.border # None /\ raw.border[1] \notin 1..BorderMax
          \/ /\ raw.filetype # None
             /\ Upper(raw.filetype[1]) \notin FileTypeChoices

\* C12: a QR request with a parameter outside its declared domain is
\* answered with an envelope whose HTTP status is 4xx, and the QR generation
\* is not reached.
C12_OutsideDomainRejected ==
    (qr.state = "responded" /\ OutsideDomain(qr.endpoint, qr.raw))
    => /\ qr.response.kind = "envelope"
       /\ qr.response.http \in 400..499
       /\ qr.generate = "NotCalled"

\* The part of C12 that does not ask for an envelope: the status is 4xx and
\* the QR generation is not reached.
C12_OutsideDomainNotGenerated ==
    (qr.state = "responded" /\ OutsideDomain(qr.endpoint, qr.raw))
    => /\ qr.response.http \in 400..499
       /\ qr.generate = "NotCalled"

\* C14: a request to /tools/qr without an api_key, or with one that
\* check_api_key does not accept, is answered with the 401 "Invalid API key"
\* envelope and no QR code is generated.
C14_ToolsQRRequiresKey ==
    (/\ qr.state = "responded"
     /\ qr.endpoint = "tools/qr"
     /\ \/ qr.api_key = None
        \/ check_api_key(qr.seen, qr.api_key) # "True")
    => /\ qr.response = InvalidKey
       /\ qr.generate = "NotCalled"

\* The identity the priority order names: the api_key parameter when the
\* request carries a non-empty one, else the remote address when there is
\* one, else the first Cf-Connecting-Ip value, else None.
PriorityKey(api_key, remote_addr, cf_connecting_ip) ==
    IF Truthy(api_key) THEN api_key
    ELSE IF remote_addr # None THEN remote_addr
    ELSE IF cf_connecting_ip # <<>> THEN cf_connecting_ip[1]
    ELSE None

\* C15: the key custom_key_func returns follows the priority order, for
\* every combination of api_key, remote address and header.
C15_KeyFollowsPriority ==
    limiter.state = "keyed"
        => limiter.key = PriorityKey(limiter.api_key, limiter.remote_addr,
                                     limiter.cf_connecting_ip)

\* The same for the requests that have a remote address.
C15_KeyFollowsPriorityWithAddress ==
    (limiter.state = "keyed" /\ limiter.remote_addr # None)
        => limiter.key = PriorityKey(limiter.api_key, limiter.remote_addr,
                                     limiter.cf_connecting_ip)
====
